---- MODULE Spec2Model ----
(***************************************************************************)
(* Model of smt-bench: the packed-subtree store (src/src/trie.rs,          *)
(* TrieStore / BranchTrie) and the direct store (src/src/old.rs,           *)
(* CountingStore), both over a key-value store with two columns            *)
(* (0 = branch records, 1 = leaf records).                                 *)
(*                                                                         *)
(* Representation of values.                                               *)
(*   H256            a tuple of 32 bytes, byte 0 first (TLA+ index 1).     *)
(*   byte vector     a record [len, nz]: its length and the function from  *)
(*                   the (0-based) offsets of its non-zero bytes to those  *)
(*                   bytes.  Every other offset below len holds 0.  The    *)
(*                   representation is lossless and canonical, so two      *)
(*                   vectors are equal exactly when the records are.       *)
(*   Option<T>       <<>> for None, <<x>> for Some(x).                     *)
(*   Result          [kind |-> "Ok" | "Err" | "Panic", value |-> ...].     *)
(***************************************************************************)
EXTENDS Integers, Sequences, FiniteSets, TLC

(* ------------------------------------------------------------------ *)
(* Program constants (trie.rs:13-17).                                   *)
(* ------------------------------------------------------------------ *)
BYTE_SIZE == 8
NODES_PER_TRIE == (2 ^ BYTE_SIZE) - 1
MERGE_VALUE_SIZE == 32 + 32 + 2
NODE_SIZE == MERGE_VALUE_SIZE * 2
TRIE_SIZE == NODES_PER_TRIE * NODE_SIZE
H256_LEN == 32

(* ------------------------------------------------------------------ *)
(* Bounds of the model.                                                 *)
(* ------------------------------------------------------------------ *)
MaxOps == 2

(* ------------------------------------------------------------------ *)
(* Bytes, 8-bit arithmetic, byte vectors.                               *)
(* ------------------------------------------------------------------ *)
Byte == 0..255

\* u8 >> s for a shift amount below the width
shr(b, s) == b \div (2 ^ s)

\* clear the low r bits of a byte: b & (0b11111111 << r)
mask_low(b, r) == b - (b % (2 ^ r))

None == <<>>
Some(x) == <<x>>

Ok(v) == [kind |-> "Ok", value |-> v]
Err(m) == [kind |-> "Err", value |-> m]
Panic == [kind |-> "Panic", value |-> <<>>]

\* vec![0u8; n]
vec_zeroed(n) == [len |-> n, nz |-> <<>>]

\* data[i]
byte_at(d, i) == IF i \in DOMAIN d.nz THEN d.nz[i] ELSE 0

\* data[off..off + Len(bs)].copy_from_slice(bs), bs a tuple of bytes
copy_from_slice(d, off, bs) ==
  LET rng == off..(off + Len(bs) - 1)
      dom == ((DOMAIN d.nz) \ rng) \cup {i \in rng : bs[i - off + 1] # 0}
  IN  [len |-> d.len,
       nz  |-> [i \in dom |-> IF i \in rng THEN bs[i - off + 1] ELSE d.nz[i]]]

\* data[i] = b
set_byte(d, i, b) == copy_from_slice(d, i, <<b>>)

\* the bytes of a slice given as a tuple, as a byte vector
to_vec(bs) == copy_from_slice(vec_zeroed(Len(bs)), 0, bs)

\* data[off..off + n] as a tuple of bytes
slice_of(d, off, n) == [j \in 1..n |-> byte_at(d, off + j - 1)]

H256_zero == [j \in 1..H256_LEN |-> 0]

(* ------------------------------------------------------------------ *)
(* Values of the tree layer (sparse_merkle_tree).                       *)
(* ------------------------------------------------------------------ *)
\* MergeValue::Value
MV_Value(h) == [kind |-> "Value", value |-> h]

\* MergeValue::MergeWithZero
MV_MergeWithZero(b, zb, zc) ==
  [kind |-> "MergeWithZero", base_node |-> b, zero_bits |-> zb, zero_count |-> zc]

BranchNode(l, r) == [left |-> l, right |-> r]

BranchKey(h, p) == [height |-> h, node_key |-> p]

\* H256::copy_bits: keep the bits at positions >= start
copy_bits(p, start) ==
  LET start_byte == start \div BYTE_SIZE
      remain == start % BYTE_SIZE
  IN  [j \in 1..H256_LEN |->
         IF j - 1 < start_byte THEN 0
         ELSE IF j - 1 = start_byte /\ remain > 0 THEN mask_low(p[j], remain)
         ELSE p[j]]

\* H256::parent_path
parent_path(p, height) ==
  IF height = 255 THEN H256_zero ELSE copy_bits(p, height + 1)

(* ------------------------------------------------------------------ *)
(* Key rounding and packing.                                            *)
(* ------------------------------------------------------------------ *)
\* round_branch_key that takes the parent path at the key's own height
round_branch_key_own_height(branch_key) ==
  LET rounded_height ==
        (((branch_key.height \div BYTE_SIZE) + 1) * BYTE_SIZE - 1) % 256
  IN  BranchKey(rounded_height, parent_path(branch_key.node_key, branch_key.height))

round_branch_key(branch_key) ==
  LET rounded_height ==
        (((branch_key.height \div BYTE_SIZE) + 1) * BYTE_SIZE - 1) % 256
  IN  BranchKey(rounded_height, parent_path(branch_key.node_key, rounded_height))

\* the bytes of the packed SMTBranchKey: the height byte, then the 32 path bytes
pack_key(key) == <<key.height>> \o key.node_key

(* ------------------------------------------------------------------ *)
(* BranchTrie: one band's blob and the rounded key it belongs to.       *)
(* ------------------------------------------------------------------ *)
VARIABLE overflow_checks  \* the build checks arithmetic overflow (debug profile)

BranchTrie(d, rk) == [data |-> d, rounded_path |-> rk]

\* BranchTrie::empty with room for 256 nodes
BranchTrie_empty_256(rounded_path) ==
  BranchTrie(vec_zeroed((NODES_PER_TRIE + 1) * NODE_SIZE), rounded_path)

BranchTrie_empty(rounded_path) == BranchTrie(vec_zeroed(TRIE_SIZE), rounded_path)

\* an access to data[off..off + n] that does not go past the end
in_bounds(d, off, n) == off + n <= d.len

\* calculate_index without the position taken from the path byte
calculate_index_base_only(trie, branch_key) ==
  LET inner_height == branch_key.height % BYTE_SIZE
      base_index == (2 ^ (8 - inner_height - 1)) - 1
      amount == inner_height + 1
  IN  IF amount >= 8 /\ overflow_checks
      THEN Panic
      ELSE Ok(base_index)

\* The slot of branch_key, or Panic.  index_byte >> (inner_height + 1) shifts
\* an 8-bit value: a shift amount of 8 panics when the build checks overflow
\* and is reduced modulo 8 when it does not.
calculate_index(trie, branch_key) ==
  LET index_byte == branch_key.node_key[(trie.rounded_path.height \div BYTE_SIZE) + 1]
      inner_height == branch_key.height % BYTE_SIZE
      base_index == (2 ^ (8 - inner_height - 1)) - 1
      amount == inner_height + 1
  IN  IF amount >= 8 /\ overflow_checks
      THEN Panic
      ELSE Ok(base_index + shr(index_byte, amount % 8))

load_h256(trie, offset) == slice_of(trie.data, offset, H256_LEN)

load_merge_value(trie, offset) ==
  IF byte_at(trie.data, offset) = 1
  THEN MV_MergeWithZero(load_h256(trie, offset + 2),
                        load_h256(trie, offset + 2 + 32),
                        byte_at(trie.data, offset + 1))
  ELSE MV_Value(load_h256(trie, offset + 2))

load_branch_node(trie, index) ==
  LET offset == index * NODE_SIZE
  IN  BranchNode(load_merge_value(trie, offset),
                 load_merge_value(trie, offset + MERGE_VALUE_SIZE))

save_h256(trie, offset, h) ==
  [trie EXCEPT !.data = copy_from_slice(@, offset, h)]

\* save_merge_value that leaves the tag byte alone when it saves a plain value
save_merge_value_keeps_tag(trie, offset, merge_value) ==
  IF merge_value.kind = "Value"
  THEN save_h256(trie, offset + 2, merge_value.value)
  ELSE LET t1 == [trie EXCEPT !.data = set_byte(@, offset, 1)]
           t2 == [t1 EXCEPT !.data = set_byte(@, offset + 1, merge_value.zero_count)]
           t3 == save_h256(t2, offset + 2, merge_value.base_node)
       IN  save_h256(t3, offset + 2 + 32, merge_value.zero_bits)

save_merge_value(trie, offset, merge_value) ==
  IF merge_value.kind = "Value"
  THEN save_h256([trie EXCEPT !.data = set_byte(@, offset, 0)],
                 offset + 2, merge_value.value)
  ELSE LET t1 == [trie EXCEPT !.data = set_byte(@, offset, 1)]
           t2 == [t1 EXCEPT !.data = set_byte(@, offset + 1, merge_value.zero_count)]
           t3 == save_h256(t2, offset + 2, merge_value.base_node)
       IN  save_h256(t3, offset + 2 + 32, merge_value.zero_bits)

\* save_branch_node that puts the right merge value one node further
save_branch_node_wide(trie, index, branch) ==
  LET offset == index * NODE_SIZE
  IN  save_merge_value(save_merge_value(trie, offset, branch.left),
                       offset + NODE_SIZE, branch.right)

save_branch_node(trie, index, branch) ==
  LET offset == index * NODE_SIZE
  IN  save_merge_value(save_merge_value(trie, offset, branch.left),
                       offset + MERGE_VALUE_SIZE, branch.right)

\* BranchTrie::get_branch: [res, trie]; indexing past the blob panics
BranchTrie_get_branch(trie, branch_key) ==
  LET index == calculate_index(trie, branch_key)
  IN  IF index.kind = "Panic" \/ ~in_bounds(trie.data, index.value * NODE_SIZE, NODE_SIZE)
      THEN Panic
      ELSE Ok(Some(load_branch_node(trie, index.value)))

\* BranchTrie::insert_branch: [res, trie]
BranchTrie_insert_branch(trie, branch_key, branch) ==
  LET index == calculate_index(trie, branch_key)
  IN  IF index.kind = "Panic" \/ ~in_bounds(trie.data, index.value * NODE_SIZE, NODE_SIZE)
      THEN [res |-> Panic, trie |-> trie]
      ELSE [res |-> Ok(<<>>), trie |-> save_branch_node(trie, index.value, branch)]

\* remove_branch that zeroes one merge value instead of the whole node
BranchTrie_remove_branch_half(trie, branch_key) ==
  LET index == calculate_index(trie, branch_key)
      offset == index.value * NODE_SIZE
  IN  IF index.kind = "Panic" \/ ~in_bounds(trie.data, offset, NODE_SIZE)
      THEN [res |-> Panic, trie |-> trie]
      ELSE [res |-> Ok(FALSE),
            trie |-> [trie EXCEPT !.data =
                        copy_from_slice(@, offset, [j \in 1..MERGE_VALUE_SIZE |-> 0])]]

\* BranchTrie::remove_branch: [res, trie]; Ok(false): the record is never
\* to be deleted
BranchTrie_remove_branch(trie, branch_key) ==
  LET index == calculate_index(trie, branch_key)
      offset == index.value * NODE_SIZE
  IN  IF index.kind = "Panic" \/ ~in_bounds(trie.data, offset, NODE_SIZE)
      THEN [res |-> Panic, trie |-> trie]
      ELSE [res |-> Ok(FALSE),
            trie |-> [trie EXCEPT !.data =
                        copy_from_slice(@, offset, [j \in 1..NODE_SIZE |-> 0])]]

(* ------------------------------------------------------------------ *)
(* The underlying key-value store: store[col] maps the keys present in  *)
(* column col to their values.  A call is logged as [op, col, key].     *)
(* ------------------------------------------------------------------ *)
kv_empty == [col \in {0, 1} |-> <<>>]

kv_get(store, col, key) ==
  IF key \in DOMAIN store[col] THEN Some(store[col][key]) ELSE None

\* the contents with the record value under key in column col
kv_put(store, col, key, value) ==
  [store EXCEPT ![col] = (key :> value) @@ @]

VARIABLE store_fails  \* the underlying store refuses every insert_raw and delete

\* the error the underlying store gives when it refuses a call
StoreFailure == "store failure"

\* KVStore::insert_raw: Ok(the contents afterwards) or the store's error
kv_insert_raw(store, col, key, value) ==
  IF store_fails THEN Err(<<StoreFailure>>) ELSE Ok(kv_put(store, col, key, value))

\* KVStore::delete: Ok(the contents afterwards) or the store's error
kv_delete(store, col, key) ==
  IF store_fails THEN Err(<<StoreFailure>>)
  ELSE Ok([store EXCEPT ![col] = [k \in (DOMAIN @) \ {key} |-> @[k]]])

Call(op, col, key) == [op |-> op, col |-> col, key |-> key]

(* ------------------------------------------------------------------ *)
(* TrieStore (trie.rs).  A store is [store, reads, writes]; an          *)
(* operation yields [st, res, calls]: the store afterwards, the result  *)
(* returned and the underlying calls it made, in order.                 *)
(* ------------------------------------------------------------------ *)
Store_new(store) == [store |-> store, reads |-> 0, writes |-> 0]

Outcome(st, res, calls) == [st |-> st, res |-> res, calls |-> calls]

\* the end of an operation after its insert_raw or delete returned r:
\* `.map_err(|err| SMTError::Store(format!("insert error {}", err)))?; Ok(())`
\* (what = "insert error" or "delete error")
stored(st, r, what, calls) ==
  IF r.kind = "Err" THEN Outcome(st, Err(<<what, r.value[1]>>), calls)
  ELSE Outcome([st EXCEPT !.store = r.value], Ok(<<>>), calls)

\* load_trie that rejects only the records shorter than TRIE_SIZE
load_trie_short_only(st, rounded_key, if_absent) ==
  LET got == kv_get(st.store, 0, pack_key(rounded_key))
  IN  IF got = None THEN if_absent
      ELSE IF got[1].len < TRIE_SIZE THEN Err(<<"corrupted trie">>)
      ELSE Ok(Some(BranchTrie(got[1], rounded_key)))

\* the match on store.get(0, packed_rounded_key) shared by the three branch
\* operations: Err on a wrong length, else the blob found (if_absent when
\* there is none)
load_trie(st, rounded_key, if_absent) ==
  LET got == kv_get(st.store, 0, pack_key(rounded_key))
  IN  IF got = None THEN if_absent
      ELSE IF got[1].len # TRIE_SIZE THEN Err(<<"corrupted trie">>)
      ELSE Ok(Some(BranchTrie(got[1], rounded_key)))

\* get_branch that reads under the key itself instead of the rounded key
TrieStore_get_branch_unrounded(st, branch_key) ==
  LET rounded_key == round_branch_key(branch_key)
      st1 == [st EXCEPT !.reads = @ + 1]
      calls == <<Call("get", 0, pack_key(branch_key))>>
      got == kv_get(st1.store, 0, pack_key(branch_key))
  IN  IF got = None THEN Outcome(st1, Ok(None), calls)
      ELSE IF got[1].len # TRIE_SIZE THEN Outcome(st1, Err(<<"corrupted trie">>), calls)
      ELSE Outcome(st1, BranchTrie_get_branch(BranchTrie(got[1], rounded_key), branch_key),
                   calls)

TrieStore_get_branch(st, branch_key) ==
  LET rounded_key == round_branch_key(branch_key)
      st1 == [st EXCEPT !.reads = @ + 1]
      calls == <<Call("get", 0, pack_key(rounded_key))>>
      loaded == load_trie(st1, rounded_key, Ok(None))
  IN  IF loaded.kind = "Err" THEN Outcome(st1, loaded, calls)
      ELSE IF loaded.value = None THEN Outcome(st1, Ok(None), calls)
      ELSE Outcome(st1, BranchTrie_get_branch(loaded.value[1], branch_key), calls)

TrieStore_get_leaf(st, leaf_key) ==
  LET st1 == [st EXCEPT !.reads = @ + 1]
      calls == <<Call("get", 1, leaf_key)>>
      got == kv_get(st1.store, 1, leaf_key)
  IN  IF got = None THEN Outcome(st1, Ok(None), calls)
      ELSE IF got[1].len = 32
           THEN Outcome(st1, Ok(Some(slice_of(got[1], 0, 32))), calls)
           ELSE Outcome(st1, Err(<<"get corrupted leaf">>), calls)

\* insert_branch that starts from an empty blob even when one is stored
insert_branch_fetch_fresh(st, branch_key, branch) ==
  LET rounded_key == round_branch_key(branch_key)
      st1 == [st EXCEPT !.reads = @ + 1]
      calls == <<Call("get", 0, pack_key(rounded_key))>>
      loaded == load_trie(st1, rounded_key, Ok(Some(BranchTrie_empty(rounded_key))))
      ins == BranchTrie_insert_branch(BranchTrie_empty(rounded_key), branch_key, branch)
  IN  IF loaded.kind = "Err" THEN Outcome(st1, loaded, calls)
      ELSE IF ins.res.kind = "Panic" THEN Outcome(st1, Panic, calls)
      ELSE Outcome(st1, Ok(Some(ins.trie)), calls)

\* insert_branch up to the mutation of the local copy (trie.rs:196-214):
\* [st, res, calls], res = Ok(Some(trie)) with the mutated copy
insert_branch_fetch(st, branch_key, branch) ==
  LET rounded_key == round_branch_key(branch_key)
      st1 == [st EXCEPT !.reads = @ + 1]
      calls == <<Call("get", 0, pack_key(rounded_key))>>
      loaded == load_trie(st1, rounded_key, Ok(Some(BranchTrie_empty(rounded_key))))
      ins == BranchTrie_insert_branch(loaded.value[1], branch_key, branch)
  IN  IF loaded.kind = "Err" THEN Outcome(st1, loaded, calls)
      ELSE IF ins.res.kind = "Panic" THEN Outcome(st1, Panic, calls)
      ELSE Outcome(st1, Ok(Some(ins.trie)), calls)

\* the write-back without the increment of the write counter
insert_branch_write_uncounted(st, trie_copy) ==
  LET key == pack_key(trie_copy.rounded_path)
  IN  stored(st, kv_insert_raw(st.store, 0, key, trie_copy.data), "insert error",
             <<Call("insert_raw", 0, key)>>)

\* insert_branch from the write-back on (trie.rs:215-220)
insert_branch_write(st, trie_copy) ==
  LET key == pack_key(trie_copy.rounded_path)
      st1 == [st EXCEPT !.writes = @ + 1]
  IN  stored(st1, kv_insert_raw(st1.store, 0, key, trie_copy.data), "insert error",
             <<Call("insert_raw", 0, key)>>)

\* variant of insert_branch that drops the record it found corrupted before
\* it returns the error
TrieStore_insert_branch_dropping(st, branch_key, branch) ==
  LET f == insert_branch_fetch(st, branch_key, branch)
      w == insert_branch_write(f.st, f.res.value[1])
      key == pack_key(round_branch_key(branch_key))
      d == kv_delete(f.st.store, 0, key)
  IN  IF f.res.kind = "Err"
      THEN Outcome(IF d.kind = "Ok" THEN [f.st EXCEPT !.store = d.value] ELSE f.st,
                   f.res, f.calls \o <<Call("delete", 0, key)>>)
      ELSE IF f.res.kind # "Ok" THEN f
      ELSE Outcome(w.st, w.res, f.calls \o w.calls)

TrieStore_insert_branch(st, branch_key, branch) ==
  LET f == insert_branch_fetch(st, branch_key, branch)
      w == insert_branch_write(f.st, f.res.value[1])
  IN  IF f.res.kind # "Ok" THEN f
      ELSE Outcome(w.st, w.res, f.calls \o w.calls)

\* variant of insert_leaf that writes into the namespace of the branches
TrieStore_insert_leaf_as_branch(st, leaf_key, leaf) ==
  LET st1 == [st EXCEPT !.writes = @ + 1]
  IN  stored(st1, kv_insert_raw(st1.store, 0, leaf_key, to_vec(leaf)), "insert error",
             <<Call("insert_raw", 0, leaf_key)>>)

TrieStore_insert_leaf(st, leaf_key, leaf) ==
  LET st1 == [st EXCEPT !.writes = @ + 1]
  IN  stored(st1, kv_insert_raw(st1.store, 1, leaf_key, to_vec(leaf)), "insert error",
             <<Call("insert_raw", 1, leaf_key)>>)

\* variant of remove_branch with the emptiness check of the TODO at
\* trie.rs:52: the record is deleted when no slot of it is left in use
TrieStore_remove_branch_reclaim(st, branch_key) ==
  LET rounded_key == round_branch_key(branch_key)
      key == pack_key(rounded_key)
      st1 == [st EXCEPT !.reads = @ + 1]
      calls == <<Call("get", 0, key)>>
      loaded == load_trie(st1, rounded_key, Ok(Some(BranchTrie_empty(rounded_key))))
      rem == BranchTrie_remove_branch(loaded.value[1], branch_key)
      should_remove == rem.trie.data = vec_zeroed(TRIE_SIZE)
      st2 == [st1 EXCEPT !.writes = @ + 1]
  IN  IF loaded.kind = "Err" THEN Outcome(st1, loaded, calls)
      ELSE IF rem.res.kind = "Panic" THEN Outcome(st1, Panic, calls)
      ELSE IF should_remove
           THEN stored(st2, kv_delete(st2.store, 0, key), "delete error",
                        calls \o <<Call("delete", 0, key)>>)
           ELSE stored(st2, kv_insert_raw(st2.store, 0, key, rem.trie.data), "insert error",
                        calls \o <<Call("insert_raw", 0, key)>>)

TrieStore_remove_branch(st, branch_key) ==
  LET rounded_key == round_branch_key(branch_key)
      key == pack_key(rounded_key)
      st1 == [st EXCEPT !.reads = @ + 1]
      calls == <<Call("get", 0, key)>>
      loaded == load_trie(st1, rounded_key, Ok(Some(BranchTrie_empty(rounded_key))))
      rem == BranchTrie_remove_branch(loaded.value[1], branch_key)
      should_remove == rem.res.value
      st2 == [st1 EXCEPT !.writes = @ + 1]
  IN  IF loaded.kind = "Err" THEN Outcome(st1, loaded, calls)
      ELSE IF rem.res.kind = "Panic" THEN Outcome(st1, Panic, calls)
      ELSE IF should_remove
           THEN stored(st2, kv_delete(st2.store, 0, key), "delete error",
                        calls \o <<Call("delete", 0, key)>>)
           ELSE stored(st2, kv_insert_raw(st2.store, 0, key, rem.trie.data), "insert error",
                        calls \o <<Call("insert_raw", 0, key)>>)

TrieStore_remove_leaf(st, leaf_key) ==
  stored(st, kv_delete(st.store, 1, leaf_key), "delete error",
          <<Call("delete", 1, leaf_key)>>)

(* ------------------------------------------------------------------ *)
(* CountingStore (old.rs): one record per branch key, in the packed     *)
(* form of gw_types (a table of two unions: 4-byte little-endian sizes, *)
(* offsets and union item ids).                                         *)
(* ------------------------------------------------------------------ *)
le32(n) == <<n % 256, (n \div 256) % 256, (n \div 65536) % 256, (n \div 16777216) % 256>>

rd32(bs, off) ==
  bs[off + 1] + 256 * bs[off + 2] + 65536 * bs[off + 3] + 16777216 * bs[off + 4]

pack_merge_value(value) ==
  IF value.kind = "Value"
  THEN le32(0) \o value.value
  ELSE le32(1) \o value.base_node \o value.zero_bits \o <<value.zero_count>>

pack_branch(branch) ==
  LET l == pack_merge_value(branch.left)
      r == pack_merge_value(branch.right)
  IN  le32(12 + Len(l) + Len(r)) \o le32(12) \o le32(12 + Len(l)) \o l \o r

\* bs is the union's bytes: the item id, then the item
unpack_merge_value(bs) ==
  IF rd32(bs, 0) = 0
  THEN MV_Value(SubSeq(bs, 5, 36))
  ELSE MV_MergeWithZero(SubSeq(bs, 5, 36), SubSeq(bs, 37, 68), bs[69])

unpack_branch(bs) ==
  LET lo == rd32(bs, 4)
      ro == rd32(bs, 8)
  IN  BranchNode(unpack_merge_value(SubSeq(bs, lo + 1, ro)),
                 unpack_merge_value(SubSeq(bs, ro + 1, Len(bs))))

\* what from_slice_should_be_ok accepts as an SMTBranchNode
branch_slice_ok(bs) ==
  LET union_ok(u) == /\ Len(u) >= 4
                     /\ \/ rd32(u, 0) = 0 /\ Len(u) = 4 + 32
                        \/ rd32(u, 0) = 1 /\ Len(u) = 4 + 65
  IN  /\ Len(bs) >= 12
      /\ rd32(bs, 0) = Len(bs)
      /\ rd32(bs, 4) = 12
      /\ rd32(bs, 8) >= 12 /\ rd32(bs, 8) <= Len(bs)
      /\ union_ok(SubSeq(bs, 13, rd32(bs, 8)))
      /\ union_ok(SubSeq(bs, rd32(bs, 8) + 1, Len(bs)))

CountingStore_get_branch(st, branch_key) ==
  LET st1 == [st EXCEPT !.reads = @ + 1]
      key == pack_key(branch_key)
      calls == <<Call("get", 0, key)>>
      got == kv_get(st1.store, 0, key)
      bs == slice_of(got[1], 0, got[1].len)
  IN  IF got = None THEN Outcome(st1, Ok(None), calls)
      ELSE IF ~branch_slice_ok(bs) THEN Outcome(st1, Panic, calls)
      ELSE Outcome(st1, Ok(Some(unpack_branch(bs))), calls)

CountingStore_get_leaf(st, leaf_key) ==
  LET st1 == [st EXCEPT !.reads = @ + 1]
      calls == <<Call("get", 1, leaf_key)>>
      got == kv_get(st1.store, 1, leaf_key)
  IN  IF got = None THEN Outcome(st1, Ok(None), calls)
      ELSE IF got[1].len = 32
           THEN Outcome(st1, Ok(Some(slice_of(got[1], 0, 32))), calls)
           ELSE Outcome(st1, Err(<<"get corrupted leaf">>), calls)

CountingStore_insert_branch(st, branch_key, branch) ==
  LET key == pack_key(branch_key)
      st1 == [st EXCEPT !.writes = @ + 1]
  IN  stored(st1, kv_insert_raw(st1.store, 0, key, to_vec(pack_branch(branch))), "insert error",
             <<Call("insert_raw", 0, key)>>)

CountingStore_insert_leaf(st, leaf_key, leaf) ==
  LET st1 == [st EXCEPT !.writes = @ + 1]
  IN  stored(st1, kv_insert_raw(st1.store, 1, leaf_key, to_vec(leaf)), "insert error",
             <<Call("insert_raw", 1, leaf_key)>>)

\* variant of remove_branch that leaves the write counter alone, as
\* remove_leaf does
CountingStore_remove_branch_uncounted(st, branch_key) ==
  LET key == pack_key(branch_key)
  IN  stored(st, kv_delete(st.store, 0, key), "delete error",
              <<Call("delete", 0, key)>>)

CountingStore_remove_branch(st, branch_key) ==
  LET key == pack_key(branch_key)
      st1 == [st EXCEPT !.writes = @ + 1]
  IN  stored(st1, kv_delete(st1.store, 0, key), "delete error",
             <<Call("delete", 0, key)>>)

CountingStore_remove_leaf(st, leaf_key) ==
  stored(st, kv_delete(st.store, 1, leaf_key), "delete error",
          <<Call("delete", 1, leaf_key)>>)

(* ------------------------------------------------------------------ *)
(* Inputs: the hashes, nodes, keys and stored records the calls and the *)
(* opened stores are drawn from.                                        *)
(* ------------------------------------------------------------------ *)
\* a path by its bytes 0 and 1, the other bytes zero
Path(b0, b1) == [j \in 1..H256_LEN |-> IF j = 1 THEN b0 ELSE IF j = 2 THEN b1 ELSE 0]

HashA == [j \in 1..H256_LEN |-> 17]
HashB == [j \in 1..H256_LEN |-> IF j = 1 THEN 1 ELSE IF j = H256_LEN THEN 255 ELSE 0]
HashC == [j \in 1..H256_LEN |-> 171]

NodeDefault == BranchNode(MV_Value(H256_zero), MV_Value(H256_zero))
NodeVM == BranchNode(MV_Value(HashA), MV_MergeWithZero(HashB, HashC, 3))
NodeVV == BranchNode(MV_Value(HashB), MV_Value(HashC))

Nodes == {NodeVM, NodeVV}

\* six keys of band (7, zero path), of inner heights 0 and 7, and one key each
\* of the bands (15, zero path), (7, path byte 1 = 1) and (255, zero path)
BranchKeys ==
  { BranchKey(0, Path(2, 0)), BranchKey(0, Path(3, 0)), BranchKey(0, Path(128, 0)),
    BranchKey(7, Path(128, 0)), BranchKey(7, Path(0, 0)), BranchKey(7, Path(255, 0)),
    BranchKey(8, Path(0, 2)), BranchKey(0, Path(2, 1)), BranchKey(255, Path(0, 0)) }

LeafKeys == {HashA}
LeafValues == {HashB, H256_zero}

BandA == pack_key(round_branch_key(BranchKey(0, Path(2, 0))))
BandB == pack_key(round_branch_key(BranchKey(8, Path(0, 2))))

ShortBlob == vec_zeroed(TRIE_SIZE - 1)
LongBlob == set_byte(vec_zeroed(TRIE_SIZE + NODE_SIZE), 128 * NODE_SIZE, 1)

\* a full-length blob whose slot 128 has tag bytes 2 (left) and 255 (right)
BadTagBlob ==
  copy_from_slice(vec_zeroed(TRIE_SIZE), 128 * NODE_SIZE,
                  <<2, 9>> \o HashA \o HashB \o <<255, 0>> \o HashC \o H256_zero)

ShortLeaf == to_vec([j \in 1..31 |-> 7])
LongLeaf == to_vec([j \in 1..33 |-> 7])

\* what the two underlying stores hold when they are opened
OpenedClean == [trie |-> kv_empty, old |-> kv_empty]

OpenedShort ==
  [trie |-> kv_put(kv_put(kv_empty, 0, BandA, ShortBlob), 1, HashA, ShortLeaf),
   old  |-> kv_put(kv_empty, 1, HashA, ShortLeaf)]

OpenedBadTag ==
  [trie |-> kv_put(kv_put(kv_put(kv_empty, 0, BandA, BadTagBlob),
                                        0, BandB, LongBlob), 1, HashA, LongLeaf),
   old  |-> kv_put(kv_empty, 1, HashA, LongLeaf)]

Opened == {OpenedClean, OpenedShort, OpenedBadTag}

(* ------------------------------------------------------------------ *)
(* The state machine: a caller of the two implementations of the Store  *)
(* trait (old.rs:117-182, trie.rs:159-273).  It makes every call on a   *)
(* CountingStore and then on a TrieStore with the same arguments, each  *)
(* over an underlying store of its own; hist logs the calls with both   *)
(* results.  A panic ends the process; an Err is returned to the        *)
(* caller, who goes on.                                                 *)
(* ------------------------------------------------------------------ *)
VARIABLES trie, old, opened, hist, pc, writers, probe

vars == <<overflow_checks, store_fails, trie, old, opened, hist, pc, writers, probe>>

NotRun == [kind |-> "NotRun", value |-> <<>>]

Last == hist[Len(hist)]

\* the direct store has made the call: log it
Issued(op, key, arg, o) ==
  /\ old' = o.st
  /\ hist' = Append(hist, [op |-> op, key |-> key, arg |-> arg,
                           ores |-> o.res, ocalls |-> o.calls,
                           tres |-> NotRun, tcalls |-> <<>>])
  /\ pc' = IF o.res.kind = "Panic" THEN "halt" ELSE "trie"
  /\ UNCHANGED <<overflow_checks, store_fails, trie, opened, writers, probe>>

\* the packed store has made the call: complete the log entry
Replayed(o) ==
  /\ trie' = o.st
  /\ hist' = [hist EXCEPT ![Len(hist)].tres = o.res, ![Len(hist)].tcalls = o.calls]
  /\ pc' = IF o.res.kind = "Panic" THEN "halt" ELSE "old"
  /\ UNCHANGED <<overflow_checks, store_fails, old, opened, writers, probe>>

CanIssue == pc = "old" /\ Len(hist) < MaxOps

CanReplay(op) == pc = "trie" /\ Last.op = op

\* a store that refuses its writes is opened empty
Init ==
  /\ overflow_checks \in BOOLEAN
  /\ store_fails \in BOOLEAN
  /\ opened \in IF store_fails THEN {OpenedClean} ELSE Opened
  /\ trie = Store_new(opened.trie)
  /\ old = Store_new(opened.old)
  /\ hist = <<>>
  /\ pc = "old"
  /\ writers = <<>>
  /\ probe = <<>>

\* CountingStore::new / TrieStore::new over the store as it is now: counters
\* 0, contents kept
Store_reopened(st) == Outcome(Store_new(st.store), Ok(<<>>), <<>>)

Old_new == CanIssue /\ Issued("new", <<>>, <<>>, Store_reopened(old))

Old_get_branch ==
  \E k \in BranchKeys :
    CanIssue /\ Issued("get_branch", k, <<>>, CountingStore_get_branch(old, k))

Old_get_leaf ==
  \E k \in LeafKeys :
    CanIssue /\ Issued("get_leaf", k, <<>>, CountingStore_get_leaf(old, k))

Old_insert_branch ==
  \E k \in BranchKeys, n \in Nodes :
    CanIssue /\ Issued("insert_branch", k, n, CountingStore_insert_branch(old, k, n))

Old_insert_leaf ==
  \E k \in LeafKeys, v \in LeafValues :
    CanIssue /\ Issued("insert_leaf", k, v, CountingStore_insert_leaf(old, k, v))

Old_remove_branch ==
  \E k \in BranchKeys :
    CanIssue /\ Issued("remove_branch", k, <<>>, CountingStore_remove_branch(old, k))

Old_remove_leaf ==
  \E k \in LeafKeys :
    CanIssue /\ Issued("remove_leaf", k, <<>>, CountingStore_remove_leaf(old, k))

Trie_new == CanReplay("new") /\ Replayed(Store_reopened(trie))

\* TrieStore::clear_stats (the direct store has none): both counters 0
Trie_clear_stats ==
  /\ CanIssue
  /\ trie' = [trie EXCEPT !.reads = 0, !.writes = 0]
  /\ hist' = Append(hist, [op |-> "clear_stats", key |-> <<>>, arg |-> <<>>,
                           ores |-> NotRun, ocalls |-> <<>>,
                           tres |-> Ok(<<>>), tcalls |-> <<>>])
  /\ UNCHANGED <<overflow_checks, store_fails, old, opened, pc, writers, probe>>

Trie_get_branch ==
  CanReplay("get_branch") /\ Replayed(TrieStore_get_branch(trie, Last.key))

Trie_get_leaf ==
  CanReplay("get_leaf") /\ Replayed(TrieStore_get_leaf(trie, Last.key))

Trie_insert_branch ==
  CanReplay("insert_branch") /\ Replayed(TrieStore_insert_branch(trie, Last.key, Last.arg))

Trie_insert_leaf ==
  CanReplay("insert_leaf") /\ Replayed(TrieStore_insert_leaf(trie, Last.key, Last.arg))

Trie_remove_branch ==
  CanReplay("remove_branch") /\ Replayed(TrieStore_remove_branch(trie, Last.key))

Trie_remove_leaf ==
  CanReplay("remove_leaf") /\ Replayed(TrieStore_remove_leaf(trie, Last.key))

Next ==
  \/ Old_new \/ Trie_new \/ Trie_clear_stats
  \/ Old_get_branch \/ Old_get_leaf \/ Old_insert_branch
  \/ Old_insert_leaf \/ Old_remove_branch \/ Old_remove_leaf
  \/ Trie_get_branch \/ Trie_get_leaf \/ Trie_insert_branch
  \/ Trie_insert_leaf \/ Trie_remove_branch \/ Trie_remove_leaf

Spec == Init /\ [][Next]_vars

TypeOK ==
  /\ pc \in {"old", "trie", "halt"}
  /\ Len(hist) <= MaxOps
  /\ trie.reads >= 0 /\ trie.writes >= 0

(* ------------------------------------------------------------------ *)
(* Two writers without isolation: each is a TrieStore of its own over   *)
(* the same underlying store (trie.store) and runs one insert_branch,   *)
(* whose get and write-back are separate steps.  hist logs the steps.   *)
(* ------------------------------------------------------------------ *)
Writers == {1, 2}

Writer(k, n) ==
  [pc |-> "start", key |-> k, branch |-> n, copy |-> None,
   reads |-> 0, writes |-> 0, res |-> NotRun]

WriterStore(w) ==
  [store |-> trie.store, reads |-> writers[w].reads, writes |-> writers[w].writes]

RaceInit ==
  /\ overflow_checks \in BOOLEAN
  /\ store_fails \in BOOLEAN
  /\ opened \in Opened
  /\ trie = Store_new(opened.trie)
  /\ old = Store_new(opened.old)
  /\ hist = <<>>
  /\ pc = "race"
  /\ probe = <<>>
  /\ \E k1 \in BranchKeys, k2 \in BranchKeys, n1 \in Nodes, n2 \in Nodes :
       /\ pack_key(round_branch_key(k1)) = pack_key(round_branch_key(k2))
       /\ writers = <<Writer(k1, n1), Writer(k2, n2)>>

\* trie.rs:196-214: the get and the mutation of the local copy
Writer_fetch(w) ==
  /\ writers[w].pc = "start"
  /\ LET o == insert_branch_fetch(WriterStore(w), writers[w].key, writers[w].branch)
     IN  writers' = [writers EXCEPT ![w] =
           [@ EXCEPT !.reads = o.st.reads,
                     !.pc = IF o.res.kind = "Ok" THEN "fetched" ELSE "done",
                     !.copy = IF o.res.kind = "Ok" THEN o.res.value ELSE None,
                     !.res = IF o.res.kind = "Ok" THEN NotRun ELSE o.res]]
  /\ hist' = Append(hist, [op |-> "fetch", writer |-> w])
  /\ UNCHANGED <<overflow_checks, store_fails, trie, old, opened, pc, probe>>

\* trie.rs:215-220: the write-back of the whole local copy
Writer_write(w) ==
  /\ writers[w].pc = "fetched"
  /\ LET o == insert_branch_write(WriterStore(w), writers[w].copy[1])
     IN  /\ trie' = [trie EXCEPT !.store = o.st.store]
         /\ writers' = [writers EXCEPT ![w] =
              [@ EXCEPT !.writes = o.st.writes, !.pc = "done", !.res = o.res]]
  /\ hist' = Append(hist, [op |-> "write", writer |-> w])
  /\ UNCHANGED <<overflow_checks, store_fails, old, opened, pc, probe>>

RaceNext == \E w \in Writers : Writer_fetch(w) \/ Writer_write(w)

SpecRace == RaceInit /\ [][RaceNext]_vars

(* ------------------------------------------------------------------ *)
(* The key arithmetic on its own: a branch key is rounded to its band   *)
(* and then indexed in an empty blob of that band, as every branch      *)
(* operation of the packed store does (trie.rs:161,171; 196,211;        *)
(* 233,251).  probe holds the key and the two results.                  *)
(* ------------------------------------------------------------------ *)
ProbeHeights == 0..255

\* values of the first path byte: the ends, powers of two and their neighbours
ProbeBytes == {0, 1, 2, 3, 4, 7, 8, 15, 16, 64, 127, 128, 129, 192, 254, 255}

\* a path whose bytes all differ: byte j is b + j (mod 256)
ProbePath(b) == [j \in 1..H256_LEN |-> (b + j - 1) % 256]

ProbeInit ==
  /\ overflow_checks \in BOOLEAN
  /\ store_fails = FALSE
  /\ opened = OpenedClean
  /\ trie = Store_new(opened.trie)
  /\ old = Store_new(opened.old)
  /\ hist = <<>>
  /\ pc = "probe"
  /\ writers = <<>>
  /\ \E h \in ProbeHeights, b \in ProbeBytes :
       probe = [pc |-> "key", key |-> BranchKey(h, ProbePath(b)),
                rounded |-> None, index |-> NotRun]

\* trie.rs:161: let rounded_key = round_branch_key(branch_key)
Probe_round_branch_key ==
  /\ pc = "probe" /\ probe.pc = "key"
  /\ probe' = [probe EXCEPT !.pc = "rounded",
                            !.rounded = Some(round_branch_key(probe.key))]
  /\ UNCHANGED <<overflow_checks, store_fails, trie, old, opened, hist, pc, writers>>

\* trie.rs:33: let index = self.calculate_index(branch_key), in the band's trie
Probe_calculate_index ==
  /\ pc = "probe" /\ probe.pc = "rounded"
  /\ probe' = [probe EXCEPT !.pc = "indexed",
                            !.index = calculate_index(BranchTrie_empty(probe.rounded[1]), probe.key)]
  /\ UNCHANGED <<overflow_checks, store_fails, trie, old, opened, hist, pc, writers>>

ProbeNext == Probe_round_branch_key \/ Probe_calculate_index

SpecProbe == ProbeInit /\ [][ProbeNext]_vars

(* ------------------------------------------------------------------ *)
(* Properties.                                                          *)
(* ------------------------------------------------------------------ *)
\* the packed store has made the latest call of the log
TrieRan == hist # <<>> /\ Last.tres.kind # "NotRun"

\* what get_branch(k) on the packed store returns in the current state
GetNow(k) == TrieStore_get_branch(trie, k).res

Returns(res, v) == res.kind = "Ok" /\ res.value = v

BandOf(k) == pack_key(round_branch_key(k))

\* the path bits at positions <= height are zero, as in the keys of the tree layer
Canonical(k) == k.node_key = parent_path(k.node_key, k.height)

InsertedOk(e) == e.op = "insert_branch" /\ e.tres.kind = "Ok"

\* C1 (write-then-read): in every state reached by a successful
\* insert_branch(k, n) on the packed store, get_branch(k) returns Some(n),
\* whatever the band held before.
C1_WriteThenRead ==
  (TrieRan /\ InsertedOk(Last)) => Returns(GetNow(Last.key), Some(Last.arg))

\* C1 witness: a plain value has just overwritten a merge-with-zero value in
\* the slot of the same key, and is read back.
C1_Witness ==
  /\ Len(hist) = 2 /\ InsertedOk(hist[1]) /\ InsertedOk(hist[2])
  /\ hist[1].key = hist[2].key
  /\ hist[1].arg = NodeVM /\ hist[2].arg = NodeVV
  /\ Returns(GetNow(hist[2].key), Some(NodeVV))

\* the latest two calls are successful insert_branch calls of two different
\* keys of one band
TwoInserts ==
  /\ Len(hist) >= 2 /\ TrieRan
  /\ InsertedOk(hist[Len(hist) - 1]) /\ InsertedOk(Last)
  /\ hist[Len(hist) - 1].key # Last.key
  /\ BandOf(hist[Len(hist) - 1].key) = BandOf(Last.key)

BothReadBack ==
  /\ Returns(GetNow(hist[Len(hist) - 1].key), Some(hist[Len(hist) - 1].arg))
  /\ Returns(GetNow(Last.key), Some(Last.arg))

\* C2 as stated (sibling isolation for any two different keys of one band):
\* after insert_branch(k1, n1) and then insert_branch(k2, n2), get_branch(k1)
\* returns n1 and get_branch(k2) returns n2.
C2_AnyKeys == TwoInserts => BothReadBack

\* C2 amended (sibling isolation for the tree layer's keys): the same, for two
\* different keys whose path bits at positions <= their height are zero.
C2_SiblingIsolation ==
  (TwoInserts /\ Canonical(hist[Len(hist) - 1].key) /\ Canonical(Last.key))
    => BothReadBack

\* C2 witness: two such keys of the same inner height 0 were inserted with
\* different nodes and both read back.
C2_Witness ==
  /\ TwoInserts /\ Canonical(hist[Len(hist) - 1].key) /\ Canonical(Last.key)
  /\ hist[Len(hist) - 1].key.height = Last.key.height
  /\ hist[Len(hist) - 1].arg # Last.arg
  /\ BothReadBack

\* C3 (remove-then-read): in every state reached by a successful
\* remove_branch(k) on the packed store, get_branch(k) returns the default
\* node, never None.
C3_RemoveThenRead ==
  (TrieRan /\ Last.op = "remove_branch" /\ Last.tres.kind = "Ok")
    => Returns(GetNow(Last.key), Some(NodeDefault))

\* C3 witness: the band had no record when the store was opened and the first
\* call is the remove; the record now exists and the default node is read.
C3_Witness ==
  /\ Len(hist) = 1 /\ TrieRan /\ Last.op = "remove_branch" /\ Last.tres.kind = "Ok"
  /\ BandOf(Last.key) \notin DOMAIN opened.trie[0]
  /\ BandOf(Last.key) \in DOMAIN trie.store[0]
  /\ Returns(GetNow(Last.key), Some(NodeDefault))

\* no insert_branch was ever made into the band of k and the band had no
\* record when the store was opened: none of its slots was ever written
NeverWritten(k) ==
  /\ BandOf(k) \notin DOMAIN opened.trie[0]
  /\ \A i \in 1..Len(hist) :
       hist[i].op = "insert_branch" => BandOf(hist[i].key) # BandOf(k)

\* C4 (empty read): a get_branch(k) on the packed store returns None exactly
\* when there is no record under k's rounded key; it returns the default node
\* when the record has full length and the slot was never written; and it
\* changes no stored record.
C4_EmptyRead ==
  /\ [](  (TrieRan /\ Last.op = "get_branch")
          => LET present == BandOf(Last.key) \in DOMAIN trie.store[0]
             IN  /\ Returns(Last.tres, None) <=> ~present
                 /\ (present /\ trie.store[0][BandOf(Last.key)].len = TRIE_SIZE
                       /\ NeverWritten(Last.key))
                      => Returns(Last.tres, Some(NodeDefault)) )
  /\ [][Trie_get_branch => trie'.store = trie.store]_vars

BranchOps == {"get_branch", "insert_branch", "remove_branch"}

\* column col of store holds, under key, a record whose length is not size
WrongLength(store, col, key, size) ==
  key \in DOMAIN store[col] /\ store[col][key].len # size

\* res is one of the two errors the stores give for a record of a wrong
\* length; an error of the underlying store is not one of them
Corruption(res) ==
  res.kind = "Err" /\ res.value \in {<<"corrupted trie">>, <<"get corrupted leaf">>}

\* C5 (corruption detection by length): a branch operation of the packed
\* store that finds a record of a length other than TRIE_SIZE under the
\* rounded key, and a get_leaf of either store that finds a leaf value of a
\* length other than 32, returns a corruption error (so no node or value).
C5_CorruptLength ==
  [][ /\ (pc = "trie" /\ Last.op \in BranchOps
            /\ WrongLength(trie.store, 0, BandOf(Last.key), TRIE_SIZE))
          => Corruption(Last'.tres)
      /\ (pc = "trie" /\ Last.op = "get_leaf"
            /\ WrongLength(trie.store, 1, Last.key, 32))
          => Corruption(Last'.tres)
      /\ (pc = "old" /\ Len(hist') = Len(hist) + 1 /\ Last'.op = "get_leaf"
            /\ WrongLength(old.store, 1, Last'.key, 32))
          => Corruption(Last'.ores) ]_vars

\* C5 witness: a get_leaf met a leaf value of a wrong length in both stores and
\* then a branch call met a blob of a wrong length; all three returned errors.
C5_Witness ==
  /\ Len(hist) = 2 /\ TrieRan
  /\ hist[1].op = "get_leaf" /\ Corruption(hist[1].ores) /\ Corruption(hist[1].tres)
  /\ WrongLength(old.store, 1, hist[1].key, 32)
  /\ WrongLength(trie.store, 1, hist[1].key, 32)
  /\ hist[2].op \in BranchOps /\ Corruption(hist[2].tres)
  /\ WrongLength(trie.store, 0, BandOf(hist[2].key), TRIE_SIZE)

\* the tag bytes of the two merge values in the slot of k, in the blob stored
\* for k's band
SlotTags(k) ==
  LET t == BranchTrie(trie.store[0][BandOf(k)], round_branch_key(k))
      index == calculate_index(t, k)
  IN  { byte_at(t.data, index.value * NODE_SIZE),
        byte_at(t.data, index.value * NODE_SIZE + MERGE_VALUE_SIZE) }

\* C6 (malformed tag is surfaced): a get_branch(k) on the packed store that
\* finds a full-length blob whose slot for k has a tag byte other than 0 or 1
\* returns a corruption error.
C6_MalformedTag ==
  ( /\ TrieRan /\ Last.op = "get_branch"
    /\ BandOf(Last.key) \in DOMAIN trie.store[0]
    /\ trie.store[0][BandOf(Last.key)].len = TRIE_SIZE
    /\ calculate_index(BranchTrie_empty(round_branch_key(Last.key)), Last.key).kind = "Ok"
    /\ SlotTags(Last.key) \ {0, 1} # {} )
  => Corruption(Last.tres)

\* the calls of op with the given names that the log entry e made on the
\* underlying store of the packed store
RoundedGet(e) == Call("get", 0, BandOf(e.key))

\* C8 (call counts of the packed store): get_branch makes exactly one
\* underlying get, under the rounded key, and no write; a successful
\* insert_branch or remove_branch makes exactly that get and then exactly one
\* write, to column 0 under the same rounded key.
C8_CallCounts ==
  TrieRan =>
    /\ Last.op = "get_branch" => Last.tcalls = <<RoundedGet(Last)>>
    /\ (Last.op \in {"insert_branch", "remove_branch"} /\ Last.tres.kind = "Ok")
         => /\ Len(Last.tcalls) = 2
            /\ Last.tcalls[1] = RoundedGet(Last)
            /\ Last.tcalls[2].op \in {"insert_raw", "delete"}
            /\ Last.tcalls[2].col = 0
            /\ Last.tcalls[2].key = BandOf(Last.key)

\* C8 witness: a successful insert_branch into a band whose blob already holds
\* another slot's node.
C8_Witness ==
  /\ TwoInserts /\ Len(Last.tcalls) = 2
  /\ GetNow(hist[Len(hist) - 1].key) # GetNow(Last.key)

RECURSIVE CountCalls(_, _)
\* the number of calls with an op in ops in a sequence of call lists
CountCalls(lists, ops) ==
  IF lists = <<>> THEN 0
  ELSE Cardinality({j \in 1..Len(Head(lists)) : Head(lists)[j].op \in ops})
         + CountCalls(Tail(lists), ops)

\* the number of calls of hist the packed store has made
TrieDone ==
  IF hist = <<>> THEN 0
  ELSE IF Last.tres.kind = "NotRun" THEN Len(hist) - 1 ELSE Len(hist)

\* the position of the latest of the first n calls of hist that is one of
\* ops; 0 when there is none
LatestOf(ops, n) ==
  LET calls == {i \in 1..n : hist[i].op \in ops}
  IN  IF calls = {} THEN 0 ELSE CHOOSE i \in calls : \A j \in calls : j <= i

\* the calls each store has made on its underlying store since its counters
\* were last zeroed
TrieCalls ==
  [i \in 1..Len(hist) |->
     IF i > LatestOf({"new", "clear_stats"}, TrieDone) THEN hist[i].tcalls ELSE <<>>]
OldCalls ==
  [i \in 1..Len(hist) |->
     IF i > LatestOf({"new"}, Len(hist)) THEN hist[i].ocalls ELSE <<>>]

\* C9 (counters track store calls): in both stores reads is the number of
\* underlying get calls made since the counters were zeroed and writes the
\* number of underlying insert and delete calls made since then.
C9_CountersTrackCalls ==
  /\ trie.reads = CountCalls(TrieCalls, {"get"})
  /\ trie.writes = CountCalls(TrieCalls, {"insert_raw", "delete"})
  /\ old.reads = CountCalls(OldCalls, {"get"})
  /\ old.writes = CountCalls(OldCalls, {"insert_raw", "delete"})

\* every call so far is an insert_branch, and the packed store has made them all
OnlyInserts ==
  /\ hist # <<>> /\ pc # "trie"
  /\ \A i \in 1..Len(hist) : hist[i].op = "insert_branch"

\* the bands of the insert_branch calls that reached their write
BandsTouched == {BandOf(hist[i].key) : i \in {j \in 1..Len(hist) : InsertedOk(hist[j])}}

\* C10 as stated (amplification bound): after a sequence of insert_branch calls
\* on the packed store the write counter is at most the number of distinct
\* bands the calls touched.
C10_AtMostBands ==
  OnlyInserts => trie.writes <= Cardinality({BandOf(hist[i].key) : i \in 1..Len(hist)})

\* the insert_branch call of log entry e made its write on the underlying store
WroteBack(e) ==
  e.op = "insert_branch" /\ \E c \in 1..Len(e.tcalls) : e.tcalls[c].op = "insert_raw"

\* C10 amended: after a sequence of insert_branch calls on the packed store the
\* write counter equals the number of those calls that made their write on the
\* underlying store (one whole-blob write per call, counted also when the
\* underlying store refuses it), which is at least the number of distinct
\* bands written.
C10_OneWritePerCall ==
  OnlyInserts =>
    /\ trie.writes = Cardinality({i \in 1..Len(hist) : WroteBack(hist[i])})
    /\ trie.writes >= Cardinality(BandsTouched)

\* C10 witness: two successful insert_branch calls into one band, two writes.
C10_Witness ==
  /\ OnlyInserts /\ Len(hist) = 2 /\ InsertedOk(hist[1]) /\ InsertedOk(hist[2])
  /\ Cardinality(BandsTouched) = 1 /\ trie.writes = 2

\* both writers have returned success from slots that differ
BothWrote ==
  /\ \A w \in Writers : writers[w].pc = "done" /\ writers[w].res.kind = "Ok"
  /\ calculate_index(writers[1].copy[1], writers[1].key)
       # calculate_index(writers[2].copy[1], writers[2].key)

\* get_branch of writer w's key on the shared store returns w's node
SlotHolds(w) ==
  Returns(TrieStore_get_branch(Store_new(trie.store), writers[w].key).res,
          Some(writers[w].branch))

\* what get_branch of writer w's key returned before either writer ran, with
\* the default node for a band that had no record
ReadAtOpen(w) ==
  IF BandOf(writers[w].key) \in DOMAIN opened.trie[0]
  THEN TrieStore_get_branch(Store_new(opened.trie), writers[w].key).res
  ELSE Ok(Some(NodeDefault))

\* one writer ran its get and its write before the other's get
OneAfterTheOther == hist[1].writer = hist[2].writer

\* C7 (lost update on a shared band): when two insert_branch calls on
\* different slots of one band have both returned, the stored blob is the last
\* writer's copy and holds its node; if the calls ran one after the other both
\* slots hold their nodes; if their steps interleaved, the slot of the writer
\* that wrote first reads as it did before either call: its update is lost.
C7_LostUpdate ==
  BothWrote =>
    /\ trie.store[0][BandOf(writers[1].key)] = writers[hist[4].writer].copy[1].data
    /\ SlotHolds(hist[4].writer)
    /\ OneAfterTheOther => SlotHolds(1) /\ SlotHolds(2)
    /\ ~OneAfterTheOther =>
         TrieStore_get_branch(Store_new(trie.store), writers[hist[3].writer].key).res
           = ReadAtOpen(hist[3].writer)

\* C7 witness: both calls returned success, their steps interleaved, and the
\* slot of the writer that wrote first does not hold the node it inserted.
C7_Witness ==
  /\ BothWrote /\ ~OneAfterTheOther
  /\ ~SlotHolds(hist[3].writer) /\ SlotHolds(hist[4].writer)

\* every call so far is an insert_branch, remove_branch or insert_leaf, and
\* both stores have made them all
SameWorkload ==
  /\ hist # <<>> /\ pc = "old"
  /\ \A i \in 1..Len(hist) : hist[i].op \in {"insert_branch", "remove_branch", "insert_leaf"}

\* two of the calls are successful branch inserts into the same band
TwoInsertsInOneBand ==
  \E i \in 1..Len(hist), j \in 1..Len(hist) :
    /\ i < j /\ InsertedOk(hist[i]) /\ InsertedOk(hist[j])
    /\ BandOf(hist[i].key) = BandOf(hist[j].key)

\* C11 as stated (packed versus direct write count): after the same sequence
\* of insert_branch, remove_branch and insert_leaf calls with at least two
\* branch inserts in one band, made on both stores from zeroed counters, the
\* packed store's write counter is strictly smaller than the direct store's.
C11_StrictlyFewerWrites ==
  (SameWorkload /\ TwoInsertsInOneBand) => trie.writes < old.writes

\* C11 amended: after the same sequence of insert_branch, remove_branch and
\* insert_leaf calls made on both stores from zeroed counters, the packed
\* store's write counter is never larger than the direct store's, and the two
\* are equal when every call on the packed store returned success: both
\* stores count one write per call.
C11_SameWriteCount ==
  SameWorkload =>
    /\ trie.writes <= old.writes
    /\ (\A i \in 1..Len(hist) : hist[i].tres.kind = "Ok") => trie.writes = old.writes
    /\ old.writes = Len(hist)

\* C11 witness: two successful branch inserts into one band on both stores,
\* two writes counted by each.
C11_Witness ==
  /\ SameWorkload /\ TwoInsertsInOneBand
  /\ hist[1].key # hist[2].key
  /\ trie.writes = 2 /\ old.writes = 2

\* the packed store has made a delete call on the branch namespace
DeletedBranchRecord ==
  \E i \in 1..Len(hist) : \E c \in 1..Len(hist[i].tcalls) :
    hist[i].tcalls[c].op = "delete" /\ hist[i].tcalls[c].col = 0

\* the latest call is a successful remove_branch on the packed store
RemovedOk == TrieRan /\ Last.op = "remove_branch" /\ Last.tres.kind = "Ok"

\* C12 (always rewrite, never delete): the packed store makes no delete call
\* on the branch namespace; a record that exists under a rounded-path key
\* exists after every step of any of the six operations; and a successful
\* remove_branch leaves the full-length blob of the key's band in the store,
\* written back by an insert, also when every slot of it is zero.
C12_NeverDelete ==
  /\ [](~DeletedBranchRecord)
  /\ [][DOMAIN trie.store[0] \subseteq DOMAIN trie'.store[0]]_vars
  /\ [](RemovedOk =>
          /\ BandOf(Last.key) \in DOMAIN trie.store[0]
          /\ trie.store[0][BandOf(Last.key)].len = TRIE_SIZE
          /\ Last.tcalls[Len(Last.tcalls)] = Call("insert_raw", 0, BandOf(Last.key)))

\* C12 witness: an insert_branch and then a remove_branch of the same key on
\* an empty store; the band's record is still there, with every byte zero.
C12_Witness ==
  /\ Len(hist) = 2 /\ InsertedOk(hist[1]) /\ RemovedOk
  /\ hist[1].key = hist[2].key
  /\ opened.trie[0] = <<>>
  /\ BandOf(Last.key) \in DOMAIN trie.store[0]
  /\ trie.store[0][BandOf(Last.key)] = vec_zeroed(TRIE_SIZE)

\* the position in hist of the latest insert_leaf or remove_leaf of key k
\* among the first n calls that returned success from the store (the packed
\* one when packed is TRUE); 0 when there is none
LastLeafCall(k, n, packed) ==
  LET calls == {i \in 1..n :
                  /\ hist[i].op \in {"insert_leaf", "remove_leaf"} /\ hist[i].key = k
                  /\ (IF packed THEN hist[i].tres ELSE hist[i].ores).kind = "Ok"}
  IN  IF calls = {} THEN 0 ELSE CHOOSE i \in calls : \A j \in calls : j <= i

\* res is what get_leaf(k) has to return after the first n calls of hist on a
\* store whose leaf namespace was leaves when it was opened
LeafPassThrough(res, leaves, k, n, packed) ==
  LET j == LastLeafCall(k, n, packed)
  IN  IF j = 0 THEN k \notin DOMAIN leaves => Returns(res, None)
      ELSE IF hist[j].op = "insert_leaf" THEN Returns(res, Some(hist[j].arg))
      ELSE Returns(res, None)

\* C13 (leaf pass-through): in both stores get_leaf(k) returns the value of
\* the latest successful insert_leaf(k, v) when no successful remove_leaf(k)
\* came after it, 'not found' when the latest successful leaf call of k is
\* remove_leaf(k), and 'not found' when k was never inserted, whatever branch
\* operations ran in between.
C13_LeafPassThrough ==
  \A k \in LeafKeys :
    /\ LeafPassThrough(TrieStore_get_leaf(trie, k).res, opened.trie[1], k, TrieDone, TRUE)
    /\ LeafPassThrough(CountingStore_get_leaf(old, k).res, opened.old[1], k, Len(hist), FALSE)

\* C13 witness: an insert_leaf over a leaf record of the wrong length, then a
\* successful branch insert; both stores return the inserted value.
C13_Witness ==
  /\ Len(hist) = 2 /\ TrieDone = 2
  /\ hist[1].op = "insert_leaf" /\ hist[1].key \in DOMAIN opened.trie[1]
  /\ InsertedOk(hist[2])
  /\ Returns(TrieStore_get_leaf(trie, hist[1].key).res, Some(hist[1].arg))
  /\ Returns(CountingStore_get_leaf(old, hist[1].key).res, Some(hist[1].arg))

\* the key of probe has been rounded and indexed
Indexed == pc = "probe" /\ probe.pc = "indexed"

\* path byte number (height div 8) of key k
DirectionByte(k) == k.node_key[(k.height \div BYTE_SIZE) + 1]

\* C15 (index range under 8-bit arithmetic): for every branch key of height
\* h and any path, calculate_index returns
\* (2^(7 - h mod 8) - 1) + floor(b / 2^((h mod 8) + 1)) with b the path byte
\* number h div 8; the result is in 0..254 and its 132-byte slot lies inside
\* the 33660-byte blob; for h mod 8 = 7 the result is 0 for every b.
C15_IndexRange ==
  Indexed =>
    LET h == probe.key.height
        b == DirectionByte(probe.key)
    IN  /\ probe.index.kind = "Ok"
        /\ probe.index.value = ((2 ^ (7 - (h % 8))) - 1) + (b \div (2 ^ ((h % 8) + 1)))
        /\ probe.index.value \in 0..(NODES_PER_TRIE - 1)
        /\ in_bounds(vec_zeroed(TRIE_SIZE), probe.index.value * NODE_SIZE, NODE_SIZE)
        /\ (h % 8 = 7 => probe.index.value = 0)

\* the same for the inner heights 0..6 only, where no shift reaches the width
\* of the byte
IndexRangeBelow7 == (Indexed /\ probe.key.height % 8 # 7) => C15_IndexRange

\* the pairs (inner height i, value u of the upper 7 - i bits of the
\* direction byte) of one band
BandPairs == UNION {{<<i, u>> : u \in 0..((2 ^ (7 - i)) - 1)} : i \in 0..(BYTE_SIZE - 1)}

\* the result of calculate_index, in the band of probe, for the key of inner
\* height pr[1] whose direction byte has the upper bits pr[2] and every lower
\* bit equal to low
SlotOfPair(pr, low) ==
  LET band == probe.rounded[1]
      at == (band.height \div BYTE_SIZE) + 1
      byte == (pr[2] * (2 ^ (pr[1] + 1))) + (IF low = 1 THEN (2 ^ (pr[1] + 1)) - 1 ELSE 0)
      key == BranchKey((band.height - 7) + pr[1], [probe.key.node_key EXCEPT ![at] = byte])
  IN  calculate_index(BranchTrie_empty(band), key)

\* calculate_index maps the pairs of the set pairs one-to-one onto slots, the
\* slot depending on the pair only and lying in the range of its inner
\* height, and the probed key's own result is the slot of its pair
PairsOntoSlots(pairs, slots) ==
  LET i == probe.key.height % BYTE_SIZE
      u == DirectionByte(probe.key) \div (2 ^ (i + 1))
  IN  /\ probe.index.kind = "Ok"
      /\ probe.index.value \in ((2 ^ (7 - i)) - 1)..((2 ^ (8 - i)) - 2)
      /\ \A pr \in pairs :
           /\ SlotOfPair(pr, 0).kind = "Ok"
           /\ SlotOfPair(pr, 1) = SlotOfPair(pr, 0)
           /\ SlotOfPair(pr, 0).value \in ((2 ^ (7 - pr[1])) - 1)..((2 ^ (8 - pr[1])) - 2)
           /\ (SlotOfPair(pr, 0) = probe.index) <=> (pr = <<i, u>>)
      /\ {SlotOfPair(pr, 0).value : pr \in pairs} = slots

\* C14 (index bijection): within the band of the probed key, calculate_index
\* is a bijection between the pairs (inner height i, upper 7 - i bits of the
\* direction byte) and the slots 0..254: the slot depends on the pair only,
\* inner height i gets the slots 2^(7-i) - 1 .. 2^(8-i) - 2, no two pairs
\* share a slot, and every slot is hit.
C14_IndexBijection ==
  Indexed => PairsOntoSlots(BandPairs, 0..(NODES_PER_TRIE - 1))

\* the same for the pairs of inner heights 0..6 and the slots 1..254
IndexBijectionBelow7 ==
  (Indexed /\ probe.key.height % BYTE_SIZE # 7) =>
    PairsOntoSlots({pr \in BandPairs : pr[1] # 7}, 1..(NODES_PER_TRIE - 1))

\* the key of probe has been rounded
Rounded == pc = "probe" /\ probe.pc \in {"rounded", "indexed"}

\* keys near the probed key: heights in the same and in other bands, paths
\* that differ from its path in one byte below, at or above the band's byte
NearKeys ==
  LET k == probe.key
      at == (k.height \div BYTE_SIZE) + 1
      heights == {k.height, (k.height + 1) % 256, (k.height + 8) % 256,
                  k.height - (k.height % BYTE_SIZE)}
      paths == {k.node_key} \cup
               {[k.node_key EXCEPT ![j] = (@ + 1) % 256] :
                  j \in {1, at, at + 1, H256_LEN} \cap (1..H256_LEN)}
  IN  {BranchKey(h, p) : h \in heights, p \in paths}

\* the bits of paths p and q above bit position height are the same
AgreeAbove(p, q, height) ==
  \A j \in 1..H256_LEN : (j - 1) * BYTE_SIZE > height => p[j] = q[j]

\* C20 (rounding): round_branch_key maps a key of height h to the height
\* ((h div 8) + 1) * 8 - 1, one of 7, 15, ..., 255, at least h and at most
\* 255, and to the path with every bit at a position <= that height cleared
\* and every bit above it kept; two keys get the same rounded key exactly
\* when their heights have the same h div 8 and their paths agree on every
\* bit above the rounded height.
C20_Rounding ==
  Rounded =>
    LET k == probe.key
        r == probe.rounded[1]
    IN  /\ r.height = (((k.height \div 8) + 1) * 8) - 1
        /\ r.height \in {(8 * n) - 1 : n \in 1..32}
        /\ r.height >= k.height /\ r.height <= 255
        /\ \A j \in 1..H256_LEN :
             r.node_key[j] = IF (j - 1) * BYTE_SIZE <= r.height THEN 0 ELSE k.node_key[j]
        /\ \A k2 \in NearKeys :
             (round_branch_key(k2) = r) <=>
               (k2.height \div 8 = k.height \div 8 /\ AgreeAbove(k2.node_key, k.node_key, r.height))

\* C20 witness: a key of height 250 whose path has nonzero bytes has been
\* rounded to height 255 and the zero path.
C20_Witness ==
  /\ Rounded
  /\ probe.key.height = 250 /\ probe.key.node_key[32] # 0
  /\ probe.rounded[1] = BranchKey(255, H256_zero)

\* every branch record of the store has the length of a full blob
AllFullLength(store) == \A key \in DOMAIN store[0] : store[0][key].len = TRIE_SIZE

\* the packed store has returned a corruption error from a branch operation
BranchCorruption ==
  \E i \in 1..Len(hist) : hist[i].op \in BranchOps /\ Corruption(hist[i].tres)

\* C16 (blob length): every record the packed store writes into the branch
\* namespace has length 33660; and when the store is opened with every
\* branch record absent or of that length, every branch record present in
\* any later state has that length and no branch operation returns a
\* corruption error.
C16_BlobLength ==
  /\ [][\A key \in DOMAIN trie'.store[0] :
          (key \notin DOMAIN trie.store[0] \/ trie'.store[0][key] # trie.store[0][key])
            => trie'.store[0][key].len = TRIE_SIZE]_vars
  /\ [](AllFullLength(opened.trie) => (AllFullLength(trie.store) /\ ~BranchCorruption))

\* C16 witness: on a store opened without branch records, an insert_branch
\* has created a full-length record and a get_branch of another key of the
\* band has read it without a corruption error.
C16_Witness ==
  /\ AllFullLength(opened.trie)
  /\ Len(hist) = 2 /\ TrieDone = 2
  /\ InsertedOk(hist[1])
  /\ hist[2].op = "get_branch" /\ hist[2].tres.kind = "Ok"
  /\ hist[2].key # hist[1].key /\ BandOf(hist[2].key) = BandOf(hist[1].key)
  /\ trie.store[0][BandOf(hist[1].key)].len = TRIE_SIZE

\* the branch records the packed store has written: those that are new or
\* differ from the record found when the store was opened
WrittenBlobs ==
  {key \in DOMAIN trie.store[0] :
     key \notin DOMAIN opened.trie[0] \/ trie.store[0][key] # opened.trie[0][key]}

\* in blob d every merge-value field with tag 0 has nonzero bytes only among
\* its 32 value bytes (offsets 2..33 of the field)
PlainValuesCanonical(d) ==
  \A i \in DOMAIN d.nz :
    byte_at(d, i - (i % MERGE_VALUE_SIZE)) = 0 => (i % MERGE_VALUE_SIZE) \in 2..33

\* C17 (canonical plain-value encoding): in every blob the packed store
\* writes, every merge-value field with tag 0 has zero-count byte 0 and all
\* 32 zero-bits bytes 0, also after a plain value was inserted into a slot
\* that held a merge-with-zero value.
C17_PlainValueCanonical ==
  \A key \in WrittenBlobs : PlainValuesCanonical(trie.store[0][key])

\* the same for the runs in which no plain value is saved over a field that
\* held a merge-with-zero value: the store is opened without branch records
\* and every insert_branch carries the same node
FreshFieldsCanonical ==
  (opened.trie[0] = <<>> /\ \A i \in 1..Len(hist) : hist[i].op = "insert_branch" => hist[i].arg = NodeVV)
    => C17_PlainValueCanonical

\* C18 (no write on corruption): an insert_branch or remove_branch of the
\* packed store that finds a record of a length other than TRIE_SIZE under
\* the rounded key returns the error after the one get call, with every
\* stored record and the write counter unchanged and the read counter one
\* higher.
C18_NoWriteOnCorruption ==
  [][ (pc = "trie" /\ Last.op \in {"insert_branch", "remove_branch"}
         /\ WrongLength(trie.store, 0, BandOf(Last.key), TRIE_SIZE))
      => /\ Corruption(Last'.tres)
         /\ Last'.tcalls = <<Call("get", 0, BandOf(Last.key))>>
         /\ trie'.store = trie.store
         /\ trie'.writes = trie.writes
         /\ trie'.reads = trie.reads + 1 ]_vars

\* C18 witness: an insert_branch and then a remove_branch have both met a
\* record of a wrong length and returned the error; the store is as it was
\* opened, with no write and two reads counted.
C18_Witness ==
  /\ Len(hist) = 2 /\ TrieDone = 2
  /\ hist[1].op = "insert_branch" /\ Corruption(hist[1].tres)
  /\ hist[2].op = "remove_branch" /\ Corruption(hist[2].tres)
  /\ WrongLength(trie.store, 0, BandOf(hist[1].key), TRIE_SIZE)
  /\ WrongLength(trie.store, 0, BandOf(hist[2].key), TRIE_SIZE)
  /\ trie.store = opened.trie
  /\ trie.writes = 0 /\ trie.reads = 2

\* the slot calculate_index gives for key k in the blob of k's band
SlotOf(k) == calculate_index(BranchTrie_empty(round_branch_key(k)), k).value

\* blobs a and b hold the same bytes everywhere outside the NODE_SIZE bytes
\* of slot s
SameOutsideSlot(a, b, s) ==
  /\ a.len = b.len
  /\ \A i \in (DOMAIN a.nz) \cup (DOMAIN b.nz) :
       (i < s * NODE_SIZE \/ i >= (s + 1) * NODE_SIZE) => byte_at(a, i) = byte_at(b, i)

\* C19 (frame of a branch write): a successful insert_branch(k, n) or
\* remove_branch(k) on the packed store changes only the 132 bytes of the slot
\* of k (the slot calculate_index gives) in the record of k's band, an absent
\* record counting as all zero; the other slots of that blob, the records of
\* the other bands and the leaf records stay as they were; and insert_leaf
\* and remove_leaf change no branch record.
C19_Frame ==
  [][ /\ (pc = "trie" /\ Last.op \in {"insert_branch", "remove_branch"}
            /\ Last'.tres.kind = "Ok")
          => LET band == BandOf(Last.key)
                 before == IF band \in DOMAIN trie.store[0]
                           THEN trie.store[0][band] ELSE vec_zeroed(TRIE_SIZE)
             IN  /\ DOMAIN trie'.store[0] = (DOMAIN trie.store[0]) \cup {band}
                 /\ SameOutsideSlot(before, trie'.store[0][band], SlotOf(Last.key))
                 /\ \A key \in (DOMAIN trie.store[0]) \ {band} :
                      trie'.store[0][key] = trie.store[0][key]
                 /\ trie'.store[1] = trie.store[1]
      /\ (pc = "trie" /\ Last.op \in {"insert_leaf", "remove_leaf"})
          => trie'.store[0] = trie.store[0] ]_vars

\* C19 witness: after an insert_branch of one key, a remove_branch of a key
\* with another slot in the same band has succeeded; the first key's node is
\* still read back and the band's blob still holds nonzero bytes.
C19_Witness ==
  /\ Len(hist) = 2 /\ InsertedOk(hist[1]) /\ RemovedOk
  /\ BandOf(hist[1].key) = BandOf(hist[2].key)
  /\ SlotOf(hist[1].key) # SlotOf(hist[2].key)
  /\ Returns(GetNow(hist[1].key), Some(hist[1].arg))
  /\ trie.store[0][BandOf(hist[1].key)] # vec_zeroed(TRIE_SIZE)

\* the calls so far are insert_branch, remove_branch and get_branch calls
\* with keys of the tree layer, made on both stores from empty
LiveKeyWorkload ==
  /\ opened = OpenedClean
  /\ pc # "trie" /\ TrieDone = Len(hist)
  /\ \A i \in 1..Len(hist) :
       /\ hist[i].op \in {"insert_branch", "remove_branch", "get_branch"}
       /\ Canonical(hist[i].key)

\* the position in hist of the latest insert_branch or remove_branch of key
\* k that the underlying store accepted; 0 when there is none
LastMutation(k) ==
  LET calls == {i \in 1..Len(hist) :
                  /\ hist[i].op \in {"insert_branch", "remove_branch"} /\ hist[i].key = k
                  /\ hist[i].ores.kind = "Ok"}
  IN  IF calls = {} THEN 0 ELSE CHOOSE i \in calls : \A j \in calls : j <= i

\* both stores return the node of the latest insert_branch of a live key k;
\* on any other key the direct store returns 'not found' and the packed
\* store 'not found' or the default node
AgreeOn(k) ==
  LET j == LastMutation(k)
      packed == GetNow(k)
      direct == CountingStore_get_branch(old, k).res
  IN  IF j > 0 /\ hist[j].op = "insert_branch"
      THEN Returns(packed, Some(hist[j].arg)) /\ Returns(direct, Some(hist[j].arg))
      ELSE /\ Returns(direct, None)
           /\ Returns(packed, None) \/ Returns(packed, Some(NodeDefault))

\* C21 (packed store agrees with the direct store on live keys): after the
\* same insert_branch, remove_branch and get_branch calls on both stores from
\* empty, with keys whose path bits at positions <= their height are zero,
\* both stores' get_branch(k) return n for every key k whose most recent
\* mutation was insert_branch(k, n); on the other keys the direct store
\* returns 'not found' and the packed store 'not found' or the default node.
C21_AgreesOnLiveKeys ==
  LiveKeyWorkload => \A k \in {key \in BranchKeys : Canonical(key)} : AgreeOn(k)

\* the same in a build without overflow checks, where calculate_index
\* returns for the keys of inner height 7
AgreesWithoutOverflowChecks == ~overflow_checks => C21_AgreesOnLiveKeys

====
